---- MODULE Spec2Model ----
(***************************************************************************)
(* A model of the connection-pooled CRUD layer of crudexample:             *)
(*   PostgreSQLConnection (postgres_sql_connection.py): the engine with    *)
(*     its QueuePool, the get_connection context manager, test_connection; *)
(*   UserCRUD (user_crud.py): create_user, read_user, read_all_users,      *)
(*     update_user, delete_user.                                           *)
(* Each caller thread runs one operation at a time; an operation is a      *)
(* sequence of steps (connect, execute, commit, fetch, the except and      *)
(* finally clauses of get_connection, the operation's own except clause).  *)
(* The database is the users table (committed rows) and its id sequence.   *)
(* Engine failures are nondeterministic: any connect, execute, commit or   *)
(* fetch may raise.  connection.rollback() and connection.close() are      *)
(* taken not to raise.                                                     *)
(***************************************************************************)
EXTENDS Integers, Sequences, FiniteSets, TLC

\* ------------------------------------------------------------------ bounds
\* The largest id the users_id_seq sequence hands out in the model.
MaxId == 2

\* --------------------------------------------------------- program constants
pool_size == 10
max_overflow == 20
PoolCapacity == pool_size + max_overflow

\* The caller threads that are modelled step by step.
Threads == {1, 2}
\* The one thread of the sequential specification.
SeqThreads == {1}

\* Values the callers pass (the ones main() uses).
Names == {"Juan", "Maria"}
Emails == {"juan@email.com", "maria@email.com"}
Ages == {25, 30}
Columns == <<"nombre", "email", "edad">>
ColumnSet == {"nombre", "email", "edad"}

\* user ids the callers ask for: every id the sequence can hand out, and one
\* that never exists.
UserIds == 1..(MaxId + 1)

VARIABLES
    table,      \* committed rows of users: id -> [nombre, email, edad]
    seq,        \* last value handed out by users_id_seq
    checkedout, \* connections the pool has leased out
    others,     \* leases held by threads of the program that are not modelled
    pc,         \* thread -> position in its operation
    op,         \* thread -> the call: [kind, user_id, args]
    conn,       \* thread -> the leased connection (0: None)
    txn,        \* thread -> state of the connection's transaction
    result,     \* thread -> the CursorResult of the statement
    exc,        \* thread -> the exception in flight ("none": no exception)
    ret,        \* thread -> what the caller observes
    hist,       \* thread -> the engine calls of the current operation, in order
    before,     \* thread -> the table when the operation was called (history)
    seen        \* what the caller keeps of earlier outcomes (history)

vars == <<table, seq, checkedout, others, pc, op, conn, txn, result, exc, ret, hist, before, seen>>

\* ------------------------------------------------------------ python values
NoneV == [t |-> "None", n |-> 0, b |-> FALSE, rows |-> <<>>]
IntV(i) == [t |-> "int", n |-> i, b |-> FALSE, rows |-> <<>>]
BoolV(x) == [t |-> "bool", n |-> 0, b |-> x, rows |-> <<>>]
DictV(d) == [t |-> "dict", n |-> 0, b |-> FALSE, rows |-> <<d>>]
ListV(ds) == [t |-> "list", n |-> 0, b |-> FALSE, rows |-> ds]

\* What a caller observes: a returned value or a propagated exception.
Returned(v) == [how |-> "return", val |-> v, exc |-> "none"]
Raised(e) == [how |-> "raise", val |-> NoneV, exc |-> e]
NoRet == [how |-> "pending", val |-> NoneV, exc |-> "none"]

\* ---------------------------------------------------------------- exceptions
\* sqlalchemy.exc classes (subclasses of SQLAlchemyError) and a plain Exception.
SQLAlchemyErrors == {"TimeoutError", "OperationalError", "DBAPIError", "ResourceClosedError"}
IsSQLAlchemyError(e) == e \in SQLAlchemyErrors

\* -------------------------------------------------------------------- calls
NoArgs == [c \in {} |-> 0]
CallOf(k, i, a) == [kind |-> k, user_id |-> i, args |-> a]
NoOp == CallOf("none", 0, NoArgs)

FullArgs == {[nombre |-> n, email |-> e, edad |-> a] : n \in Names, e \in Emails, a \in Ages}
\* The keyword arguments of update_user that are not None.
UpdateArgs == {[c \in S |-> f[c]] : f \in FullArgs, S \in SUBSET ColumnSet}

AllCalls ==
    {CallOf("create", 0, a) : a \in FullArgs}
    \cup {CallOf("read", i, NoArgs) : i \in UserIds}
    \cup {CallOf("read_all", 0, NoArgs)}
    \cup {CallOf("update", i, a) : i \in UserIds, a \in UpdateArgs}
    \cup {CallOf("delete", i, NoArgs) : i \in UserIds}
    \cup {CallOf("test", 0, NoArgs)}

\* (mutant) read_user and read_all_users commit too.
EveryKindCommits == {"create", "read", "read_all", "update", "delete"}

\* The operations that call conn.commit().
WriteKinds == {"create", "update", "delete"}
CrudKinds == {"create", "read", "read_all", "update", "delete"}

\* ------------------------------------------------------------- statements
\* (mutant) the SET list without the assignment of edad.
UpdatesWithoutEdad(args) == SelectSeq(<<"nombre", "email">>, LAMBDA c : c \in DOMAIN args)

\* update_user's dynamic SET list: one assignment per argument that is not
\* None, in the order nombre, email, edad.
Updates(args) == SelectSeq(Columns, LAMBDA c : c \in DOMAIN args)

InSeq(x, s) == \E k \in 1..Len(s) : s[k] = x

\* The statement an operation sends: its kind, its SET list, its bound
\* parameters (params.user_id is the :user_id parameter).
Statement(o) ==
    [sql |-> CASE o.kind = "create" -> "INSERT"
               [] o.kind = "read" -> "SELECT_ONE"
               [] o.kind = "read_all" -> "SELECT_ALL"
               [] o.kind = "update" -> "UPDATE"
               [] o.kind = "delete" -> "DELETE"
               [] OTHER -> "SELECT_VERSION",
     set |-> IF o.kind = "update" THEN Updates(o.args) ELSE <<>>,
     user_id |-> o.user_id,
     params |-> o.args]

\* ------------------------------------------------------------- the engine
NoResult == [rowcount |-> 0, rows |-> <<>>]

RowOf(tbl, i) == <<i, tbl[i].nombre, tbl[i].email, tbl[i].edad>>

\* (mutant) ORDER BY id DESC.
RECURSIVE SortedIdsDescending(_)
SortedIdsDescending(S) ==
    IF S = {} THEN <<>>
    ELSE LET m == CHOOSE x \in S : \A y \in S : x >= y
         IN <<m>> \o SortedIdsDescending(S \ {m})

\* The ids of tbl in ascending order (ORDER BY id).
RECURSIVE SortedIds(_)
SortedIds(S) ==
    IF S = {} THEN <<>>
    ELSE LET m == CHOOSE x \in S : \A y \in S : x <= y
         IN <<m>> \o SortedIds(S \ {m})

\* The cursor a statement yields on the committed table tbl; newid is the
\* next value of the id sequence.
Cursor(stmt, tbl, newid) ==
    CASE stmt.sql = "INSERT" -> [rowcount |-> 1, rows |-> <<<<newid>>>>]
      [] stmt.sql = "SELECT_ONE" ->
            IF stmt.user_id \in DOMAIN tbl
            THEN [rowcount |-> 1, rows |-> <<RowOf(tbl, stmt.user_id)>>]
            ELSE [rowcount |-> 0, rows |-> <<>>]
      [] stmt.sql = "SELECT_ALL" ->
            LET ids == SortedIds(DOMAIN tbl)
            IN [rowcount |-> Len(ids), rows |-> [k \in 1..Len(ids) |-> RowOf(tbl, ids[k])]]
      [] stmt.sql \in {"UPDATE", "DELETE"} ->
            [rowcount |-> IF stmt.user_id \in DOMAIN tbl THEN 1 ELSE 0, rows |-> <<>>]
      [] OTHER -> [rowcount |-> 1, rows |-> <<<<"PostgreSQL">>>>]

\* The row an UPDATE leaves: the columns of the SET list take the bound
\* parameters, the others keep their values.
UpdatedRow(row, stmt) ==
    [c \in ColumnSet |-> IF InSeq(c, stmt.set) THEN stmt.params[c] ELSE row[c]]

\* (mutant) the DELETE removes nothing.
CommittedKeepsDeleted(tbl, stmt, res) ==
    CASE stmt.sql = "INSERT" ->
            [i \in DOMAIN tbl \cup {res.rows[1][1]} |->
                IF i = res.rows[1][1]
                THEN [nombre |-> stmt.params.nombre, email |-> stmt.params.email,
                      edad |-> stmt.params.edad]
                ELSE tbl[i]]
      [] stmt.sql = "UPDATE" /\ res.rowcount > 0 ->
            [tbl EXCEPT ![stmt.user_id] =
                [c \in ColumnSet |-> IF InSeq(c, stmt.set) THEN stmt.params[c] ELSE @[c]]]
      [] OTHER -> tbl

\* The table after the transaction of stmt, whose cursor was res, commits.
Committed(tbl, stmt, res) ==
    CASE stmt.sql = "INSERT" ->
            [i \in DOMAIN tbl \cup {res.rows[1][1]} |->
                IF i = res.rows[1][1]
                THEN [nombre |-> stmt.params.nombre, email |-> stmt.params.email,
                      edad |-> stmt.params.edad]
                ELSE tbl[i]]
      [] stmt.sql = "UPDATE" /\ res.rowcount > 0 ->
            [tbl EXCEPT ![stmt.user_id] = UpdatedRow(tbl[stmt.user_id], stmt)]
      [] stmt.sql = "DELETE" /\ res.rowcount > 0 ->
            [i \in DOMAIN tbl \ {stmt.user_id} |-> tbl[i]]
      [] OTHER -> tbl

\* Row locks: an UPDATE or DELETE waits for the uncommitted UPDATE or DELETE
\* of another transaction on the same row.
RowLocked(p, i) ==
    \E q \in Threads \ {p} :
        /\ txn[q] = "open"
        /\ op[q].kind \in {"update", "delete"}
        /\ op[q].user_id = i
        /\ result[q].rowcount > 0

\* ------------------------------------------------------------------- init
EmptyTable == [i \in {} |-> 0]

\* The caller has kept nothing yet: no id of a create, no deleted id.
NothingSeen == [created |-> NoOp, deleted |-> {}]

Init ==
    /\ table = EmptyTable
    /\ seq = 0
    /\ checkedout = 0
    /\ others = 0
    /\ pc = [p \in Threads |-> "idle"]
    /\ op = [p \in Threads |-> NoOp]
    /\ conn = [p \in Threads |-> 0]
    /\ txn = [p \in Threads |-> "none"]
    /\ result = [p \in Threads |-> NoResult]
    /\ exc = [p \in Threads |-> "none"]
    /\ ret = [p \in Threads |-> NoRet]
    /\ hist = [p \in Threads |-> <<>>]
    /\ before = [p \in Threads |-> EmptyTable]
    /\ seen = NothingSeen

\* ---------------------------------------------------------------- the pool
\* QueuePool hands out a connection no thread holds: the lowest one.
FreeConnection ==
    CHOOSE c \in 1..PoolCapacity :
        /\ \A q \in Threads : conn[q] # c
        /\ \A d \in 1..(c - 1) : \E q \in Threads : conn[q] = d

\* (mutant) max_overflow=-1: the pool opens connections without limit.
PoolNeverFull == FALSE

PoolFull == checkedout >= PoolCapacity

Log(p, e) == [hist EXCEPT ![p] = Append(@, e)]

\* Creates the model still lets start: the id sequence stops at MaxId.
PendingCreates ==
    Cardinality({q \in Threads : op[q].kind = "create" /\ pc[q] \in {"connect", "execute"}})

\* --------------------------------------------------------------- the calls
\* (mutant) update_user and delete_user answer True from the except clause.
FailureValueTrue(kind) ==
    CASE kind = "create" -> NoneV
      [] kind = "read" -> NoneV
      [] kind = "read_all" -> ListV(<<>>)
      [] OTHER -> BoolV(TRUE)

\* The value an operation returns from its "except SQLAlchemyError" clause.
FailureValue(kind) ==
    CASE kind = "create" -> NoneV
      [] kind = "read" -> NoneV
      [] kind = "read_all" -> ListV(<<>>)
      [] OTHER -> BoolV(FALSE)

\* (mutant) update_user without the check of its arguments.
NoUpdatesUnchecked(c) == FALSE

\* update_user's check of its arguments, made before get_connection().
NoUpdates(c) == c.kind = "update" /\ Updates(c.args) = <<>>

\* (mutant) update_user raises when there is nothing to update.
NothingToUpdateRaises == Raised("ValueError")

\* What update_user answers when there is nothing to update.
NothingToUpdate == Returned(BoolV(FALSE))

\* A caller calls an operation.  update_user with nothing to update returns
\* False at once.  snap is what the history variable before keeps of the
\* table: the table itself, or nothing where it is not observed.
Call(p, c, snap) ==
    /\ pc[p] = "idle"
    /\ c.kind = "create" => seq + PendingCreates < MaxId
    /\ op' = [op EXCEPT ![p] = c]
    /\ before' = [before EXCEPT ![p] = snap]
    /\ IF NoUpdates(c)
       THEN /\ pc' = [pc EXCEPT ![p] = "done"]
            /\ ret' = [ret EXCEPT ![p] = NothingToUpdate]
       ELSE /\ pc' = [pc EXCEPT ![p] = "connect"]
            /\ ret' = ret
    /\ UNCHANGED <<table, seq, checkedout, others, conn, txn, result, exc, hist, seen>>

\* get_connection: self.engine.connect() leases a connection.
ConnectOk(p) ==
    /\ pc[p] = "connect"
    /\ ~PoolFull
    /\ conn' = [conn EXCEPT ![p] = FreeConnection]
    /\ checkedout' = checkedout + 1
    /\ hist' = Log(p, "connect")
    /\ pc' = [pc EXCEPT ![p] = "execute"]
    /\ UNCHANGED <<table, seq, others, op, txn, result, exc, ret, before, seen>>

\* self.engine.connect() raises: the pool has a connection to give, and the
\* server cannot be reached.
ConnectFail(p) ==
    /\ pc[p] = "connect"
    /\ ~PoolFull
    /\ exc' = [exc EXCEPT ![p] = "OperationalError"]
    /\ hist' = Log(p, "connect_failed")
    /\ pc' = [pc EXCEPT ![p] = "except"]
    /\ UNCHANGED <<table, seq, checkedout, others, op, conn, txn, result, ret, before, seen>>

\* (mutant) pool_timeout=None: the wait for a connection never ends.
ConnectNoTimeout(p) == FALSE /\ UNCHANGED vars

\* self.engine.connect() waited pool_timeout seconds on a pool with every
\* connection leased: sqlalchemy.exc.TimeoutError.
ConnectTimeout(p) ==
    /\ pc[p] = "connect"
    /\ PoolFull
    /\ exc' = [exc EXCEPT ![p] = "TimeoutError"]
    /\ hist' = Log(p, "connect_failed")
    /\ pc' = [pc EXCEPT ![p] = "except"]
    /\ UNCHANGED <<table, seq, checkedout, others, op, conn, txn, result, ret, before, seen>>

\* conn.execute(query, params) succeeds; the connection's transaction begins.
ExecuteOk(p) ==
    /\ pc[p] = "execute"
    /\ op[p].kind \in {"update", "delete"} => ~RowLocked(p, op[p].user_id)
    /\ result' = [result EXCEPT ![p] = Cursor(Statement(op[p]), table, seq + 1)]
    /\ seq' = IF op[p].kind = "create" THEN seq + 1 ELSE seq
    /\ txn' = [txn EXCEPT ![p] = "open"]
    /\ hist' = Log(p, "execute")
    /\ pc' = [pc EXCEPT ![p] = IF op[p].kind \in WriteKinds THEN "commit" ELSE "fetch"]
    /\ UNCHANGED <<table, checkedout, others, op, conn, exc, ret, before, seen>>

\* conn.execute raises.
ExecuteFail(p) ==
    /\ pc[p] = "execute"
    /\ exc' = [exc EXCEPT ![p] = "DBAPIError"]
    /\ txn' = [txn EXCEPT ![p] = "open"]
    /\ hist' = Log(p, "execute_failed")
    /\ pc' = [pc EXCEPT ![p] = "except"]
    /\ UNCHANGED <<table, seq, checkedout, others, op, conn, result, ret, before, seen>>

\* conn.commit() succeeds: the statement's effect reaches the table.
CommitOk(p) ==
    /\ pc[p] = "commit"
    /\ table' = Committed(table, Statement(op[p]), result[p])
    /\ txn' = [txn EXCEPT ![p] = "committed"]
    /\ hist' = Log(p, "commit")
    /\ pc' = [pc EXCEPT ![p] = "fetch"]
    /\ UNCHANGED <<seq, checkedout, others, op, conn, result, exc, ret, before, seen>>

\* conn.commit() raises.
CommitFail(p) ==
    /\ pc[p] = "commit"
    /\ exc' = [exc EXCEPT ![p] = "DBAPIError"]
    /\ hist' = Log(p, "commit_failed")
    /\ pc' = [pc EXCEPT ![p] = "except"]
    /\ UNCHANGED <<table, seq, checkedout, others, op, conn, txn, result, ret, before, seen>>

\* (mutant) the dict takes nombre and email from each other's column.
UserDataSwapped(row) == [id |-> row[1], nombre |-> row[3], email |-> row[2], edad |-> row[4]]

\* The dict read_user and read_all_users build from a Row.
UserData(row) == [id |-> row[1], nombre |-> row[2], email |-> row[3], edad |-> row[4]]

\* (mutant) update_user and delete_user test rowcount >= 0.
ReturnValueAnyCount(kind, res) ==
    CASE kind = "create" -> IntV(res.rows[1][1])
      [] kind = "read" ->
            IF Len(res.rows) > 0 THEN DictV(UserData(res.rows[1])) ELSE NoneV
      [] kind = "read_all" ->
            ListV([k \in 1..Len(res.rows) |-> UserData(res.rows[k])])
      [] kind \in {"update", "delete"} -> BoolV(res.rowcount >= 0)
      [] OTHER -> BoolV(TRUE)

\* The value the body of the with-block returns, read from the CursorResult.
ReturnValue(kind, res) ==
    CASE kind = "create" -> IntV(res.rows[1][1])
      [] kind = "read" ->
            IF Len(res.rows) > 0 THEN DictV(UserData(res.rows[1])) ELSE NoneV
      [] kind = "read_all" ->
            ListV([k \in 1..Len(res.rows) |-> UserData(res.rows[k])])
      [] kind \in {"update", "delete"} -> BoolV(res.rowcount > 0)
      [] OTHER -> BoolV(TRUE)

\* The rest of the with-block: the rows (or the row count) are read and the
\* return statement is reached.
FetchOk(p) ==
    /\ pc[p] = "fetch"
    /\ ret' = [ret EXCEPT ![p] = Returned(ReturnValue(op[p].kind, result[p]))]
    /\ pc' = [pc EXCEPT ![p] = "finally"]
    /\ UNCHANGED <<table, seq, checkedout, others, op, conn, txn, result, exc, hist, before, seen>>

\* Reading the rows raises: an SQLAlchemyError or another Exception.
FetchFail(p) ==
    /\ pc[p] = "fetch"
    /\ op[p].kind \notin {"update", "delete"}
    /\ \E e \in {"ResourceClosedError", "Exception"} : exc' = [exc EXCEPT ![p] = e]
    /\ pc' = [pc EXCEPT ![p] = "except"]
    /\ UNCHANGED <<table, seq, checkedout, others, op, conn, txn, result, ret, hist, before, seen>>

\* (mutant) the except clauses roll back without testing the connection.
ExceptUnguarded(p) ==
    /\ pc[p] = "except"
    /\ txn' = [txn EXCEPT ![p] = IF @ = "open" THEN "rolledback" ELSE @]
    /\ hist' = Log(p, "rollback")
    /\ pc' = [pc EXCEPT ![p] = "finally"]
    /\ UNCHANGED <<table, seq, checkedout, others, op, conn, result, exc, ret, before, seen>>

\* (mutant) after the rollback the statement is tried again.
ExceptRetry(p) ==
    /\ pc[p] = "except"
    /\ IF conn[p] # 0
       THEN /\ txn' = [txn EXCEPT ![p] = IF @ = "open" THEN "rolledback" ELSE @]
            /\ hist' = Log(p, "rollback")
            /\ pc' = [pc EXCEPT ![p] = "execute"]
            /\ exc' = [exc EXCEPT ![p] = "none"]
       ELSE /\ pc' = [pc EXCEPT ![p] = "finally"]
            /\ UNCHANGED <<txn, hist, exc>>
    /\ UNCHANGED <<table, seq, checkedout, others, op, conn, result, ret, before, seen>>

\* (mutant) the except clauses raise again without rolling back.
ExceptNoRollback(p) ==
    /\ pc[p] = "except"
    /\ pc' = [pc EXCEPT ![p] = "finally"]
    /\ UNCHANGED <<table, seq, checkedout, others, op, conn, txn, result, exc, ret, hist, before, seen>>

\* get_connection's except clauses: roll back if there is a connection, and
\* raise again.
Except(p) ==
    /\ pc[p] = "except"
    /\ IF conn[p] # 0
       THEN /\ txn' = [txn EXCEPT ![p] = IF @ = "open" THEN "rolledback" ELSE @]
            /\ hist' = Log(p, "rollback")
       ELSE UNCHANGED <<txn, hist>>
    /\ pc' = [pc EXCEPT ![p] = "finally"]
    /\ UNCHANGED <<table, seq, checkedout, others, op, conn, result, exc, ret, before, seen>>

\* (mutant) the connection is closed at the end of the with-block only, not
\* in a finally clause.
FinallySuccessOnly(p) ==
    /\ pc[p] = "finally"
    /\ IF conn[p] # 0 /\ exc[p] = "none"
       THEN /\ conn' = [conn EXCEPT ![p] = 0]
            /\ checkedout' = checkedout - 1
            /\ txn' = [txn EXCEPT ![p] = IF @ = "open" THEN "rolledback" ELSE @]
            /\ hist' = Log(p, "close")
       ELSE UNCHANGED <<conn, checkedout, txn, hist>>
    /\ pc' = [pc EXCEPT ![p] = IF exc[p] = "none" THEN "done" ELSE "handler"]
    /\ UNCHANGED <<table, seq, others, op, result, exc, ret, before, seen>>

\* get_connection's finally clause: close the connection if there is one
\* (the pool rolls back what is still open); then the return value or the
\* exception leaves the with-block.
Finally(p) ==
    /\ pc[p] = "finally"
    /\ IF conn[p] # 0
       THEN /\ conn' = [conn EXCEPT ![p] = 0]
            /\ checkedout' = checkedout - 1
            /\ txn' = [txn EXCEPT ![p] = IF @ = "open" THEN "rolledback" ELSE @]
            /\ hist' = Log(p, "close")
       ELSE UNCHANGED <<conn, checkedout, txn, hist>>
    /\ pc' = [pc EXCEPT ![p] = IF exc[p] = "none" THEN "done" ELSE "handler"]
    /\ UNCHANGED <<table, seq, others, op, result, exc, ret, before, seen>>

\* (mutant) test_connection catches SQLAlchemyError only.
HandledNarrowProbe(kind, e) ==
    IF IsSQLAlchemyError(e)
    THEN Returned(IF kind = "test" THEN BoolV(FALSE) ELSE FailureValue(kind))
    ELSE Raised(e)

\* (mutant) the CRUD operations let the pool's TimeoutError through.
HandledTimeoutRaised(kind, e) ==
    IF kind = "test" THEN Returned(BoolV(FALSE))
    ELSE IF IsSQLAlchemyError(e) /\ e # "TimeoutError" THEN Returned(FailureValue(kind))
    ELSE Raised(e)

\* What the caller observes when the exception e reaches the operation's own
\* except clause: the CRUD operations catch SQLAlchemyError, test_connection
\* catches Exception.
Handled(kind, e) ==
    IF kind = "test" THEN Returned(BoolV(FALSE))
    ELSE IF IsSQLAlchemyError(e) THEN Returned(FailureValue(kind))
    ELSE Raised(e)

Handler(p) ==
    /\ pc[p] = "handler"
    /\ ret' = [ret EXCEPT ![p] = Handled(op[p].kind, exc[p])]
    /\ pc' = [pc EXCEPT ![p] = "done"]
    /\ UNCHANGED <<table, seq, checkedout, others, op, conn, txn, result, exc, hist, before, seen>>

\* The caller has the outcome; the thread is free for its next call.
Return(p) ==
    /\ pc[p] = "done"
    /\ pc' = [pc EXCEPT ![p] = "idle"]
    /\ op' = [op EXCEPT ![p] = NoOp]
    /\ txn' = [txn EXCEPT ![p] = "none"]
    /\ result' = [result EXCEPT ![p] = NoResult]
    /\ exc' = [exc EXCEPT ![p] = "none"]
    /\ ret' = [ret EXCEPT ![p] = NoRet]
    /\ hist' = [hist EXCEPT ![p] = <<>>]
    /\ before' = [before EXCEPT ![p] = EmptyTable]
    /\ UNCHANGED <<table, seq, checkedout, others, conn, seen>>

\* What the caller keeps once call o has ended with outcome r: the id
\* create_user returned, with the values it was given, until the next call
\* ends; and every id for which delete_user returned True.
Noted(s, o, r) ==
    [created |-> IF o.kind = "create" /\ r.how = "return" /\ r.val.t = "int"
                 THEN CallOf("create", r.val.n, o.args)
                 ELSE NoOp,
     deleted |-> IF o.kind = "delete" /\ r = Returned(BoolV(TRUE))
                 THEN s.deleted \cup {o.user_id}
                 ELSE s.deleted]

\* The caller has the outcome and keeps it (user1_id = create_user(...),
\* success = delete_user(...)); the thread is free for its next call.
ReturnNoted(p) ==
    /\ pc[p] = "done"
    /\ seen' = Noted(seen, op[p], ret[p])
    /\ pc' = [pc EXCEPT ![p] = "idle"]
    /\ op' = [op EXCEPT ![p] = NoOp]
    /\ txn' = [txn EXCEPT ![p] = "none"]
    /\ result' = [result EXCEPT ![p] = NoResult]
    /\ exc' = [exc EXCEPT ![p] = "none"]
    /\ ret' = [ret EXCEPT ![p] = NoRet]
    /\ hist' = [hist EXCEPT ![p] = <<>>]
    /\ before' = [before EXCEPT ![p] = EmptyTable]
    /\ UNCHANGED <<table, seq, checkedout, others, conn>>

\* The leases of the threads that are not modelled.  The modelled threads see
\* the others only through the free capacity, and only when it is less than
\* their own number: the others hold nothing, or leave fewer than that free.
OthersLevels == {0} \cup {n \in 0..PoolCapacity : n > PoolCapacity - Cardinality(Threads)}

\* Threads that are not modelled lease connections, or return some.
OthersAcquire ==
    /\ \E n \in OthersLevels :
        /\ n > others
        /\ checkedout + (n - others) <= PoolCapacity
        /\ others' = n
        /\ checkedout' = checkedout + (n - others)
    /\ UNCHANGED <<table, seq, pc, op, conn, txn, result, exc, ret, hist, before, seen>>

OthersRelease ==
    /\ \E n \in OthersLevels :
        /\ n < others
        /\ others' = n
        /\ checkedout' = checkedout - (others - n)
    /\ UNCHANGED <<table, seq, pc, op, conn, txn, result, exc, ret, hist, before, seen>>

\* ---------------------------------------------------------- specifications
\* One caller: every call, every argument.
Next ==
    \E p \in SeqThreads :
        \/ \E c \in AllCalls : Call(p, c, table)
        \/ ConnectOk(p) \/ ConnectFail(p)
        \/ ExecuteOk(p) \/ ExecuteFail(p)
        \/ CommitOk(p) \/ CommitFail(p)
        \/ FetchOk(p) \/ FetchFail(p)
        \/ Except(p) \/ Finally(p) \/ Handler(p) \/ Return(p)

Spec == Init /\ [][Next]_vars

\* The calls of a caller that uses the ids it was given: every create, and
\* read, read_all, delete and an update of edad on every id.
TripCalls ==
    {CallOf("create", 0, a) : a \in FullArgs}
    \cup {CallOf("read", i, NoArgs) : i \in UserIds}
    \cup {CallOf("read_all", 0, NoArgs)}
    \cup {CallOf("update", i, [edad |-> a]) : i \in UserIds, a \in Ages}
    \cup {CallOf("delete", i, NoArgs) : i \in UserIds}

\* One caller that keeps the outcomes of its calls.
NextTrip ==
    \E p \in SeqThreads :
        \/ \E c \in TripCalls : Call(p, c, table)
        \/ ConnectOk(p) \/ ConnectFail(p)
        \/ ExecuteOk(p) \/ ExecuteFail(p)
        \/ CommitOk(p) \/ CommitFail(p)
        \/ FetchOk(p) \/ FetchFail(p)
        \/ Except(p) \/ Finally(p) \/ Handler(p) \/ ReturnNoted(p)

SpecTrip == Init /\ [][NextTrip]_vars

\* One call of each kind, update_user also with nothing to update.
PoolCalls ==
    {CallOf("create", 0, [nombre |-> "Juan", email |-> "juan@email.com", edad |-> 30]),
     CallOf("read", 1, NoArgs),
     CallOf("read_all", 0, NoArgs),
     CallOf("update", 1, [edad |-> 25]),
     CallOf("update", 1, NoArgs),
     CallOf("delete", 1, NoArgs),
     CallOf("test", 0, NoArgs)}

\* One caller, and the leases of the rest of the program: the pool may be
\* full when the caller asks for a connection.
NextPool ==
    \/ \E p \in SeqThreads :
        \/ \E c \in PoolCalls : Call(p, c, table)
        \/ ConnectOk(p) \/ ConnectFail(p) \/ ConnectTimeout(p)
        \/ ExecuteOk(p) \/ ExecuteFail(p)
        \/ CommitOk(p) \/ CommitFail(p)
        \/ FetchOk(p) \/ FetchFail(p)
        \/ Except(p) \/ Finally(p) \/ Handler(p) \/ Return(p)
    \/ OthersAcquire
    \/ OthersRelease

SpecPool == Init /\ [][NextPool]_vars

\* The calls of the concurrent specification: a write of each kind, on the
\* first row.
ConcCalls ==
    {CallOf("create", 0, [nombre |-> "Juan", email |-> "juan@email.com", edad |-> 30]),
     CallOf("update", 1, [edad |-> 25]),
     CallOf("delete", 1, NoArgs)}

\* Two callers in parallel, and the leases of the rest of the program.
NextConc ==
    \/ \E p \in Threads :
        \/ \E c \in ConcCalls : Call(p, c, EmptyTable)
        \/ ConnectOk(p) \/ ConnectFail(p) \/ ConnectTimeout(p)
        \/ ExecuteOk(p) \/ ExecuteFail(p)
        \/ CommitOk(p) \/ CommitFail(p)
        \/ FetchOk(p) \/ FetchFail(p)
        \/ Except(p) \/ Finally(p) \/ Handler(p) \/ Return(p)
    \/ OthersAcquire
    \/ OthersRelease

\* A thread inside self.engine.connect() gets a connection or, after
\* pool_timeout seconds, the TimeoutError.
SpecConc ==
    /\ Init
    /\ [][NextConc]_vars
    /\ \A p \in Threads : WF_vars(ConnectOk(p) \/ ConnectTimeout(p))

\* ------------------------------------------------------------------ claims
Count(s, e) == Cardinality({k \in 1..Len(s) : s[k] = e})
\* e1 occurs in s before an occurrence of e2.
Precedes(s, e1, e2) == \E i, j \in 1..Len(s) : i < j /\ s[i] = e1 /\ s[j] = e2
Last(s) == s[Len(s)]
Acquired(p) == InSeq("connect", hist[p])
Failed(p) == exc[p] # "none"
EmptyUpdate(p) == op[p].kind = "update" /\ DOMAIN op[p].args = {}

\* C1: an operation that leased a connection has returned it exactly once
\* when it returns or its exception leaves get_connection, on every exit path;
\* the pool's count of leases is the number of connections the threads hold,
\* and it is 0 whenever no operation is in progress.
C1_ReleasedOnEveryPath ==
    /\ \A p \in SeqThreads :
        /\ Count(hist[p], "close") <= 1
        /\ pc[p] \in {"handler", "done"} =>
                /\ conn[p] = 0
                /\ Count(hist[p], "close") = Count(hist[p], "connect")
    /\ checkedout = Cardinality({p \in Threads : conn[p] # 0})
    /\ (\A p \in Threads : pc[p] \in {"idle", "done"}) => checkedout = 0

\* C1's case: an operation whose with-block raised an exception that is not
\* an SQLAlchemyError has ended, its connection returned.
C1_Witness ==
    \E p \in SeqThreads :
        /\ pc[p] = "done" /\ exc[p] = "Exception"
        /\ hist[p] = <<"connect", "execute", "commit", "rollback", "close">>
        /\ checkedout = 0

\* C2: a write operation that fails after it leased its connection goes
\* through the rollback and then the release, the release last, before the
\* failure reaches the caller; and every release of a write operation comes
\* after a commit or a rollback of its transaction.
C2_ResolvedBeforeRelease ==
    \A p \in SeqThreads :
        op[p].kind \in WriteKinds =>
            /\ InSeq("close", hist[p]) =>
                    \/ Precedes(hist[p], "commit", "close")
                    \/ Precedes(hist[p], "rollback", "close")
            /\ \A k \in 1..Len(hist[p]) :
                    hist[p][k] = "close" => hist[p][k - 1] \in {"commit", "rollback"}
            /\ (pc[p] \in {"handler", "done"} /\ Failed(p) /\ Acquired(p)) =>
                    /\ Precedes(hist[p], "rollback", "close")
                    /\ Last(hist[p]) = "close"
                    /\ txn[p] \in {"committed", "rolledback"}

\* C2's case: update_user whose commit failed has reported its failure.
C2_Witness ==
    \E p \in SeqThreads :
        /\ pc[p] = "done" /\ op[p].kind = "update" /\ exc[p] = "DBAPIError"
        /\ hist[p] = <<"connect", "execute", "commit_failed", "rollback", "close">>
        /\ txn[p] = "rolledback"

\* C3: a create, update or delete that fails at any step after its
\* transaction began leaves the table as it was when it was called.
C3_NoPartialCommit ==
    \A p \in SeqThreads :
        (pc[p] = "done" /\ op[p].kind \in WriteKinds /\ Failed(p)) => table = before[p]

\* C4: update_user with no field to update contacts nothing: no connection,
\* no statement, no transaction; the table and the pool stay as they were,
\* whatever the id.
C4_EmptyUpdateNoRoundTrip ==
    \A p \in SeqThreads :
        EmptyUpdate(p) =>
            /\ pc[p] = "done"
            /\ hist[p] = <<>>
            /\ conn[p] = 0 /\ checkedout = 0
            /\ txn[p] = "none" /\ result[p] = NoResult
            /\ table = before[p]

\* C4's case: update_user with no field, on the id of a row of the table.
C4_Witness ==
    \E p \in SeqThreads :
        /\ EmptyUpdate(p) /\ pc[p] = "done"
        /\ op[p].user_id \in DOMAIN table

\* C5 (as claimed): update_user with no field ends with an outcome that is
\* neither the False of an update that matched no row nor the outcome of an
\* engine failure.
C5_InvalidArgumentDistinct ==
    \A p \in SeqThreads :
        (pc[p] = "done" /\ EmptyUpdate(p)) =>
            /\ ret[p] # Returned(ReturnValue("update", NoResult))
            /\ ret[p] # Handled("update", "DBAPIError")

\* C5 (amended): update_user with no field returns False, the value an update
\* that matched no row returns and the value an engine failure yields; it
\* raises nothing.
C5_EmptyUpdateReturnsFalse ==
    \A p \in SeqThreads :
        (pc[p] = "done" /\ EmptyUpdate(p)) =>
            /\ ret[p] = Returned(BoolV(FALSE))
            /\ ret[p] = Returned(ReturnValue("update", NoResult))
            /\ ret[p] = Handled("update", "DBAPIError")

\* C5's case: update_user with no field, on an id that is in no row.
C5_Witness ==
    \E p \in SeqThreads :
        /\ EmptyUpdate(p) /\ pc[p] = "done"
        /\ op[p].user_id \notin DOMAIN table
        /\ table # EmptyTable

\* C6: a successful update_user(id, S) of an existing row sets exactly the
\* columns of S to the values given; the other columns of the row keep their
\* values, the row keeps its id, no row appears or disappears and every other
\* row is unchanged.
C6_FieldSparsity ==
    \A p \in SeqThreads :
        (pc[p] = "done" /\ op[p].kind = "update" /\ ret[p] = Returned(BoolV(TRUE))) =>
            LET i == op[p].user_id
                S == DOMAIN op[p].args
            IN /\ S # {}
               /\ i \in DOMAIN before[p]
               /\ DOMAIN table = DOMAIN before[p]
               /\ \A j \in DOMAIN table \ {i} : table[j] = before[p][j]
               /\ \A c \in ColumnSet :
                    table[i][c] = IF c \in S THEN op[p].args[c] ELSE before[p][i][c]

\* C6's case: an update of edad alone that changed it, with another row in
\* the table.
C6_Witness ==
    \E p \in SeqThreads :
        /\ pc[p] = "done" /\ op[p].kind = "update" /\ ret[p] = Returned(BoolV(TRUE))
        /\ DOMAIN op[p].args = {"edad"}
        /\ table[op[p].user_id].edad # before[p][op[p].user_id].edad
        /\ Cardinality(DOMAIN table) > 1

\* C7 (as claimed): for read, read_all, update and delete, what the caller
\* observes after an engine failure differs from what it observes when the
\* operation succeeds and matches nothing.
C7_FailureDistinct ==
    \A p \in SeqThreads :
        (pc[p] = "done" /\ op[p].kind \in {"read", "read_all", "update", "delete"}
            /\ IsSQLAlchemyError(exc[p])) =>
                ret[p] # Returned(ReturnValue(op[p].kind, NoResult))

\* C7 (amended): for read, read_all, update and delete, an engine failure
\* yields the very value a success that matched nothing yields: None for
\* read, the empty list for read_all, False for update and delete.
C7_FailureLooksLikeNothingMatched ==
    \A p \in SeqThreads :
        (pc[p] = "done" /\ op[p].kind \in {"read", "read_all", "update", "delete"}) =>
            LET nothing == CASE op[p].kind = "read" -> NoneV
                             [] op[p].kind = "read_all" -> ListV(<<>>)
                             [] OTHER -> BoolV(FALSE)
            IN /\ IsSQLAlchemyError(exc[p]) => ret[p] = Returned(nothing)
               /\ (~Failed(p) /\ Acquired(p) /\ result[p] = NoResult) =>
                        ret[p] = Returned(nothing)

\* C7's case: read_user of a row that exists failed at the engine and
\* returned None.
C7_Witness ==
    \E p \in SeqThreads :
        /\ pc[p] = "done" /\ op[p].kind = "read" /\ exc[p] = "DBAPIError"
        /\ op[p].user_id \in DOMAIN table
        /\ ret[p] = Returned(NoneV)

\* C8: without an engine failure, update_user (with a field to update) and
\* delete_user return True exactly when a row with the id existed; on an id
\* that does not exist they return False, having committed and released, and
\* the table is unchanged; delete_user of an existing id removes that row and
\* no other.
C8_TrueIffRowExisted ==
    \A p \in SeqThreads :
        (pc[p] = "done" /\ op[p].kind \in {"update", "delete"} /\ ~Failed(p)
            /\ ~EmptyUpdate(p)) =>
            LET i == op[p].user_id
            IN /\ ret[p] = Returned(BoolV(i \in DOMAIN before[p]))
               /\ hist[p] = <<"connect", "execute", "commit", "close">>
               /\ conn[p] = 0
               /\ i \notin DOMAIN before[p] => table = before[p]
               /\ (op[p].kind = "delete" /\ i \in DOMAIN before[p]) =>
                    /\ DOMAIN table = DOMAIN before[p] \ {i}
                    /\ \A j \in DOMAIN table : table[j] = before[p][j]

\* C8's case: delete_user of an existing id, another row left in the table.
C8_Witness ==
    \E p \in SeqThreads :
        /\ pc[p] = "done" /\ op[p].kind = "delete" /\ ret[p] = Returned(BoolV(TRUE))
        /\ table # EmptyTable

\* C9: when every connection of the pool is leased, a further operation does
\* not wait for ever in engine.connect(): as long as the pool stays full it
\* gets the TimeoutError (the pool-exhausted failure); the step that raises it
\* happens on a full pool, before any statement of the operation, and leaves
\* every lease, every transaction and the table as they were.
C9_AcquireTimesOut ==
    /\ [][\A p \in Threads :
            (exc[p] # "TimeoutError" /\ exc'[p] = "TimeoutError") =>
                /\ PoolFull
                /\ hist'[p] = <<"connect_failed">>
                /\ conn' = conn /\ checkedout' = checkedout
                /\ txn' = txn /\ table' = table]_vars
    /\ \A p \in Threads :
            (pc[p] = "connect" /\ PoolFull) ~> (exc[p] = "TimeoutError" \/ ~PoolFull)

\* C9's case: an operation got the TimeoutError while another thread held a
\* connection with its statement executed, and has reported its failure.
C9_Witness ==
    \E p, q \in Threads :
        /\ p # q
        /\ pc[p] = "done" /\ exc[p] = "TimeoutError"
        /\ ret[p] = Returned(FailureValue(op[p].kind))
        /\ conn[q] # 0 /\ txn[q] = "open"

\* C10 (as claimed): for every CRUD operation, what the caller observes when
\* the pool's wait times out differs from what it observes when the statement
\* fails at the engine.
C10_TimeoutDistinct ==
    \A p \in SeqThreads :
        (pc[p] = "done" /\ op[p].kind \in CrudKinds /\ exc[p] = "TimeoutError") =>
            ret[p] # Handled(op[p].kind, "DBAPIError")

\* C10 (amended): every CRUD operation absorbs the pool's TimeoutError and the
\* failure of its statement alike and returns the same failure value for both
\* (None for create and read, the empty list for read_all, False for update
\* and delete); the return value does not tell them apart.
C10_SameFailureValue ==
    \A p \in SeqThreads :
        (pc[p] = "done" /\ op[p].kind \in CrudKinds
            /\ exc[p] \in {"TimeoutError", "DBAPIError"}) =>
                ret[p] = Returned(CASE op[p].kind \in {"create", "read"} -> NoneV
                                    [] op[p].kind = "read_all" -> ListV(<<>>)
                                    [] OTHER -> BoolV(FALSE))

\* C10's case: create_user got the TimeoutError of a full pool and returned
\* None.
C10_Witness ==
    \E p \in SeqThreads :
        /\ pc[p] = "done" /\ op[p].kind = "create" /\ exc[p] = "TimeoutError"
        /\ hist[p] = <<"connect_failed">>
        /\ ret[p] = Returned(NoneV)

\* C11: a create_user that succeeds returns an id that is not null and is the
\* id of no row that was in the table; and a read_user of that id that
\* follows at once, and meets no failure, returns the record with that id and
\* the nombre, email and edad given to create_user.
C11_CreateReadRoundTrip ==
    \A p \in SeqThreads :
        /\ (pc[p] = "done" /\ op[p].kind = "create" /\ ~Failed(p)) =>
                /\ ret[p].how = "return" /\ ret[p].val.t = "int"
                /\ ret[p].val.n >= 1
                /\ ret[p].val.n \notin DOMAIN before[p]
        /\ (pc[p] = "done" /\ op[p].kind = "read" /\ ~Failed(p)
                /\ seen.created.kind = "create"
                /\ op[p].user_id = seen.created.user_id) =>
                    ret[p] = Returned(DictV([id |-> seen.created.user_id,
                                             nombre |-> seen.created.args.nombre,
                                             email |-> seen.created.args.email,
                                             edad |-> seen.created.args.edad]))

\* C11's case: read_user of the id the create_user just before returned, the
\* second row of the table.
C11_Witness ==
    \E p \in SeqThreads :
        /\ pc[p] = "done" /\ op[p].kind = "read" /\ ~Failed(p)
        /\ seen.created.kind = "create"
        /\ op[p].user_id = seen.created.user_id
        /\ ret[p].val.t = "dict"
        /\ Cardinality(DOMAIN table) = 2

\* C12: read_all_users that meets no failure returns exactly the rows of the
\* table: one record per row, each with the row's id, nombre, email and edad,
\* in strictly ascending order of id (so none twice); the empty list when the
\* table is empty.
C12_ReadAllIsTheTable ==
    \A p \in SeqThreads :
        (pc[p] = "done" /\ op[p].kind = "read_all" /\ ~Failed(p)) =>
            /\ ret[p].how = "return" /\ ret[p].val.t = "list"
            /\ LET rows == ret[p].val.rows
               IN /\ Len(rows) = Cardinality(DOMAIN table)
                  /\ \A k \in 1..Len(rows) :
                        /\ rows[k].id \in DOMAIN table
                        /\ rows[k].nombre = table[rows[k].id].nombre
                        /\ rows[k].email = table[rows[k].id].email
                        /\ rows[k].edad = table[rows[k].id].edad
                  /\ \A k \in 1..(Len(rows) - 1) : rows[k].id < rows[k + 1].id

\* C12's case: read_all_users returned two records that differ in nombre.
C12_Witness ==
    \E p \in SeqThreads :
        /\ pc[p] = "done" /\ op[p].kind = "read_all" /\ ~Failed(p)
        /\ Len(ret[p].val.rows) = 2
        /\ ret[p].val.rows[1].nombre # ret[p].val.rows[2].nombre

\* C13: once delete_user(id) has returned True, the row is gone; a later
\* read_user(id) that meets no failure returns None without raising, a later
\* delete_user(id) returns False, and no later read_all_users holds a record
\* with that id.
C13_DeletedStaysGone ==
    \A p \in SeqThreads :
        /\ (pc[p] = "done" /\ op[p].kind = "delete" /\ ret[p] = Returned(BoolV(TRUE))) =>
                op[p].user_id \notin DOMAIN table
        /\ (pc[p] = "done" /\ ~Failed(p) /\ op[p].user_id \in seen.deleted) =>
                /\ op[p].kind = "read" => ret[p] = Returned(NoneV)
                /\ op[p].kind = "delete" => ret[p] = Returned(BoolV(FALSE))
        /\ (pc[p] = "done" /\ ~Failed(p) /\ op[p].kind = "read_all") =>
                \A k \in 1..Len(ret[p].val.rows) : ret[p].val.rows[k].id \notin seen.deleted

\* C13's case: read_user of an id whose row was deleted returned None, a
\* create_user having succeeded since the delete.
C13_Witness ==
    \E p \in SeqThreads :
        /\ pc[p] = "done" /\ op[p].kind = "read" /\ ~Failed(p)
        /\ op[p].user_id \in seen.deleted
        /\ ret[p] = Returned(NoneV)
        /\ \E i \in DOMAIN table : i > op[p].user_id

\* C14: test_connection always returns a bool and lets no exception out: True
\* when the connection was leased and the query and its fetch succeeded,
\* False when any of them raised; it has returned the connection it leased,
\* and the table is as it was.
C14_ProbeReturnsBool ==
    \A p \in SeqThreads :
        (pc[p] = "done" /\ op[p].kind = "test") =>
            /\ ret[p].how = "return" /\ ret[p].val.t = "bool"
            /\ ret[p].val.b = (hist[p] = <<"connect", "execute", "close">> /\ ~Failed(p))
            /\ Failed(p) => ret[p] = Returned(BoolV(FALSE))
            /\ conn[p] = 0 /\ checkedout = 0
            /\ Count(hist[p], "close") = Count(hist[p], "connect")
            /\ table = before[p]

\* C14's case: test_connection whose fetch raised an exception that is not an
\* SQLAlchemyError returned False, on a table with a row.
C14_Witness ==
    \E p \in SeqThreads :
        /\ pc[p] = "done" /\ op[p].kind = "test" /\ exc[p] = "Exception"
        /\ ret[p] = Returned(BoolV(FALSE))
        /\ hist[p] = <<"connect", "execute", "rollback", "close">>
        /\ table # EmptyTable

\* C15: in every interleaving, no two operations in progress hold the same
\* connection, every lease is a connection of the pool, and the pool never
\* has more than pool_size + max_overflow connections leased.
C15_ExclusiveLeases ==
    /\ \A p, q \in Threads : (p # q /\ conn[p] # 0) => conn[p] # conn[q]
    /\ \A p \in Threads : conn[p] \in 0..(pool_size + max_overflow)
    /\ checkedout <= pool_size + max_overflow
    /\ checkedout = others + Cardinality({p \in Threads : conn[p] # 0})

\* C15's case: two operations each hold a connection with its transaction
\* open.
C15_Witness ==
    \E p, q \in Threads :
        /\ p # q
        /\ conn[p] # 0 /\ conn[q] # 0
        /\ txn[p] = "open" /\ txn[q] = "open"
        /\ op[p].kind = "update" /\ op[q].kind = "create"

\* The value each CRUD operation documents for a failure.
ExpectedFailure(kind) ==
    CASE kind \in {"create", "read"} -> NoneV
      [] kind = "read_all" -> ListV(<<>>)
      [] OTHER -> BoolV(FALSE)

\* C16: an operation asks for a connection at most once, executes at most one
\* statement and commits at most once; after the connection or the statement
\* failed nothing is tried again, and the CRUD operation reports the failure.
C16_NoRetry ==
    \A p \in SeqThreads :
        /\ Count(hist[p], "connect") + Count(hist[p], "connect_failed") <= 1
        /\ Count(hist[p], "execute") + Count(hist[p], "execute_failed") <= 1
        /\ Count(hist[p], "commit") + Count(hist[p], "commit_failed") <= 1
        /\ InSeq("connect_failed", hist[p]) => hist[p] = <<"connect_failed">>
        /\ InSeq("execute_failed", hist[p]) =>
                /\ ~InSeq("commit", hist[p]) /\ ~InSeq("commit_failed", hist[p])
                /\ pc[p] \in {"except", "finally", "handler", "done"}
        /\ (pc[p] = "done" /\ op[p].kind \in CrudKinds
                /\ (InSeq("connect_failed", hist[p]) \/ InSeq("execute_failed", hist[p]))) =>
                    ret[p] = Returned(ExpectedFailure(op[p].kind))

\* C16's case: delete_user whose statement failed has reported False after
\* one connect and one execute.
C16_Witness ==
    \E p \in SeqThreads :
        /\ pc[p] = "done" /\ op[p].kind = "delete"
        /\ hist[p] = <<"connect", "execute_failed", "rollback", "close">>
        /\ ret[p] = Returned(BoolV(FALSE))

\* C17: read_user and read_all_users never change the table, whether they
\* find rows, find none or fail; they never commit; when they end their
\* connection is returned and no transaction is open.
C17_ReadsAreReadOnly ==
    \A p \in SeqThreads :
        op[p].kind \in {"read", "read_all"} =>
            /\ table = before[p]
            /\ ~InSeq("commit", hist[p]) /\ ~InSeq("commit_failed", hist[p])
            /\ txn[p] # "committed"
            /\ pc[p] \in {"handler", "done"} =>
                    /\ conn[p] = 0
                    /\ txn[p] \in {"none", "rolledback"}

\* C17's case: read_user found its row and has ended, the transaction its
\* SELECT began closed with the connection.
C17_Witness ==
    \E p \in SeqThreads :
        /\ pc[p] = "done" /\ op[p].kind = "read" /\ ~Failed(p)
        /\ ret[p].val.t = "dict"
        /\ hist[p] = <<"connect", "execute", "close">>
        /\ txn[p] = "rolledback"

\* C18: a CRUD operation absorbs every SQLAlchemyError (from connect, execute,
\* commit or fetch) and returns its failure value; it never lets an
\* SQLAlchemyError out; and when connect raised there is no rollback and no
\* close, as there is no connection.
C18_EngineErrorsAbsorbed ==
    \A p \in SeqThreads :
        /\ (pc[p] = "done" /\ op[p].kind \in CrudKinds /\ IsSQLAlchemyError(exc[p])) =>
                ret[p] = Returned(ExpectedFailure(op[p].kind))
        /\ (op[p].kind \in CrudKinds /\ ret[p].how = "raise") =>
                ~IsSQLAlchemyError(ret[p].exc)
        /\ InSeq("connect_failed", hist[p]) =>
                /\ hist[p] = <<"connect_failed">>
                /\ conn[p] = 0 /\ txn[p] = "none"

\* C18's case: read_all_users whose connect raised OperationalError returned
\* the empty list.
C18_Witness ==
    \E p \in SeqThreads :
        /\ pc[p] = "done" /\ op[p].kind = "read_all" /\ exc[p] = "OperationalError"
        /\ hist[p] = <<"connect_failed">>
        /\ ret[p] = Returned(ListV(<<>>))
====
